---- MODULE Spec2Model ----
(***************************************************************************)
(* The per-slot throughput simulation of the JAM simulator, in its two     *)
(* implementations:                                                        *)
(*   "A"  src/scripts/simulation.py             run_simulation             *)
(*   "B"  src/tools/jam_datacenter_simulator.py run_simulation             *)
(*                                                                         *)
(* One run is a state machine: pc = "loop" while the slot loop runs,       *)
(* "done" once the summary is computed and returned, "error" when an       *)
(* exception left the function.  The random draws (random.randint,         *)
(* random.random, np.random.multinomial) are nondeterministic choices over *)
(* their supports.                                                         *)
(*                                                                         *)
(* Numbers.  Python floats are modelled as exact rationals, records        *)
(* [n, d] in lowest terms with d > 0; np.mean of an empty list is "nan".   *)
(* P, T, finality_delay_slots, the prices and the work-package ranges are  *)
(* the shipped values.  The byte sizes, the core count and the witness     *)
(* ranges of simulation.py are scaled to small numbers (the multinomial    *)
(* draw over 341 cores cannot be enumerated); the scaled settings keep the *)
(* order relations of the shipped ones, which are stated beside them.      *)
(* epoch_mode of simulation.py is off: it only fixes num_slots to 600 and  *)
(* reseeds the random stream, and every draw is already arbitrary here.    *)
(* The CSV file written before the return is output plumbing, left out.    *)
(***************************************************************************)
EXTENDS Integers, Sequences, FiniteSets, TLC

VARIABLES impl, cfg, scenario, num_slots, pc, err, slot,
          tps_effective, tps_finalized, contention_history, costs,
          last, summary

vars == <<impl, cfg, scenario, num_slots, pc, err, slot,
          tps_effective, tps_finalized, contention_history, costs,
          last, summary>>

\* ------------------------------------------------------------------ bounds

\* The largest num_slots of a long run; LongRun says which runs are long.
MaxSlots == 3

\* The largest num_slots of every other run.
MaxSlotsWide == 1

\* --------------------------------------------------------------- constants

\* Slot time in seconds.
P == 6

\* Extrinsics per work-package.
T == 128

finality_delay_slots == 2

\* ------------------------------------------------------ rational arithmetic

RECURSIVE GCD(_, _)
GCD(a, b) == IF b = 0 THEN a ELSE GCD(b, a % b)

\* The rational n/d (n >= 0, d > 0) in lowest terms.
Frac(n, d) == LET g == GCD(n, d) IN [n |-> n \div g, d |-> d \div g]

Zero == Frac(0, 1)

RAdd(a, b) == Frac(a.n * b.d + b.n * a.d, a.d * b.d)

RMulInt(a, k) == Frac(a.n * k, a.d)

RDivInt(a, k) == Frac(a.n, a.d * k)

RLe(a, b) == a.n * b.d <= b.n * a.d

RLt(a, b) == a.n * b.d < b.n * a.d

RECURSIVE RSum(_)
RSum(s) == IF s = <<>> THEN Zero ELSE RAdd(Head(s), RSum(Tail(s)))

\* np.mean: the sum over the length; nan for an empty list (a warning, no
\* exception).
Mean(s) == IF s = <<>> THEN "nan" ELSE RDivInt(RSum(s), Len(s))

Min(a, b) == IF a <= b THEN a ELSE b

RECURSIVE SumSeq(_)
SumSeq(s) == IF s = <<>> THEN 0 ELSE Head(s) + SumSeq(Tail(s))

\* sum(contention_history): the number of True entries.
RECURSIVE CountTrue(_)
CountTrue(s) ==
    IF s = <<>> THEN 0 ELSE (IF Head(s) THEN 1 ELSE 0) + CountTrue(Tail(s))

\* ------------------------------------------------------------------ settings

\* The prices, USD per work-package and per ticket (0.001 and 0.0005).
GAMMA_A == Frac(1, 1000)

GAMMA_Z == Frac(5, 10000)

\* simulation.py's module constants.  Shipped: C = 341, core_bandwidth =
\* 2 MiB/s, work_package_size = 13,794,305, witness_size = 640, so that
\*   core_bandwidth * P < work_package_size        (12,582,912 < 13,794,305)
\*   max witnesses * witness_size < core_bandwidth * P   (1,920,000)
\* core_bandwidth = 1 keeps both relations; core_bandwidth = 3 is the
\* constant edited to a faster link (capacity above one work-package).
SettingsA ==
    { [C |-> c, core_bandwidth |-> bw, work_package_size |-> 8,
       witness_size |-> 1] : c \in {1, 2}, bw \in {1, 3} }

\* jam_datacenter_simulator.py's USER SETTINGS.  Shipped: C = 341,
\* core_bandwidth = (3125 MiB) // C, work_package_size = 13,794,305,
\* CHUNK_SIZE = 1 MiB, witness_size = 640, so that
\*   CHUNK_SIZE < work_package_size, and work_package_size is no multiple
\*   of CHUNK_SIZE (the integer division drops the remainder).
SettingsB ==
    { [C |-> 1, core_bandwidth |-> 5, work_package_size |-> 3,
       CHUNK_SIZE |-> 2, witness_size |-> 1],
      [C |-> 2, core_bandwidth |-> 3, work_package_size |-> 3,
       CHUNK_SIZE |-> 2, witness_size |-> 1] }

Settings(im) == IF im = "A" THEN SettingsA ELSE SettingsB

KnownScenarios == {"stateless", "state-heavy", "mixed"}

Scenarios == KnownScenarios \cup {"bogus"}

\* ------------------------------------------------------- workload generator

\* The light range drawn from 0: a slot with no work-package at all.
Mut_LightWorkloads == 0..3

\* simulation.py: random.randint(1, 3) and random.randint(3, 6).
LightWorkloads == 1..3

HeavyWorkloads == 3..6

\* simulation.py: random.randint(100, 500) and random.randint(1000, 3000),
\* scaled: two disjoint ranges, the heavy one above the light one.
LightWitnesses == 1..2

HeavyWitnesses == 3..4

\* The <<workloads, witnesses>> pairs one slot of simulation.py can draw;
\* the empty set for a tag that reaches the else branch (raise ValueError).
\* "mixed": random.random() < 0.8 can come out either way.
DrawsA(sc) ==
    LET light == LightWorkloads \X LightWitnesses
        heavy == HeavyWorkloads \X HeavyWitnesses
    IN  IF sc = "stateless" THEN light
        ELSE IF sc = "state-heavy" THEN heavy
        ELSE IF sc = "mixed" THEN light \cup heavy
        ELSE {}

\* jam_datacenter_simulator.py: workloads_for_slot; every tag that is not
\* "stateless" or "state-heavy" takes the else branch.
workloads_for_slot(sc) ==
    IF sc = "stateless" THEN 5..15
    ELSE IF sc = "state-heavy" THEN 15..30
    ELSE 5..30

\* --------------------------------------------------------- core distributor

\* The support of np.random.multinomial(total, [1/C]*C): every sequence of
\* `cores` naturals that sums to total.
RECURSIVE Multinomial(_, _)
Multinomial(total, cores) ==
    IF cores = 1 THEN {<<total>>}
    ELSE UNION { { <<k>> \o a : a \in Multinomial(total - k, cores - 1) }
                 : k \in 0..total }

\* ------------------------------------------------------ contention evaluator

\* simulation.py: wp_data_per_core + wit_data_per_core, for each core.
NeededA(c, wpc, witpc) ==
    [i \in 1..c.C |-> wpc[i] * c.work_package_size + witpc[i] * c.witness_size]

\* jam_datacenter_simulator.py: needed, for each core.
NeededB(c, num_workloads, cpc) ==
    [i \in 1..c.C |->
        cpc[i] * c.CHUNK_SIZE + (num_workloads \div c.C) * c.witness_size]

\* capacity = core_bandwidth * P.
Capacity(c) == c.core_bandwidth * P

\* The comparison taken as >=: a core exactly at its capacity counts.
Mut_OverRateA(c, needed) ==
    ~RLt(Frac(needed, P), Frac(c.core_bandwidth, 1))

\* simulation.py: total_data_rate_per_core > core_bandwidth, the rate being
\* the float (wp + wit) / P.
OverRateA(c, needed) == RLt(Frac(c.core_bandwidth, 1), Frac(needed, P))

\* jam_datacenter_simulator.py: needed > capacity.
OverCapacityB(c, needed) == needed > Capacity(c)

\* The cap forgotten: a core transmits all it needs.
Mut_ProcessedPerCore(c, needed) == needed

\* What one core transmits: min(capacity, needed).
ProcessedPerCore(c, needed) == Min(Capacity(c), needed)

\* simulation.py's loop over the cores: <<slot_contention_count,
\* total_processed_data_in_slot>> after cores i..C.
RECURSIVE CoreLoopA(_, _, _, _, _)
CoreLoopA(c, needed, i, count, total) ==
    IF i > c.C THEN <<count, total>>
    ELSE CoreLoopA(c, needed, i + 1,
                   IF OverRateA(c, needed[i]) THEN count + 1 ELSE count,
                   total + ProcessedPerCore(c, needed[i]))

\* jam_datacenter_simulator.py's loop over the cores: <<slot_contended,
\* processed_bytes>>.
RECURSIVE CoreLoopB(_, _, _, _, _)
CoreLoopB(c, needed, i, contended, total) ==
    IF i > c.C THEN <<contended, total>>
    ELSE CoreLoopB(c, needed, i + 1,
                   IF OverCapacityB(c, needed[i]) THEN TRUE ELSE contended,
                   total + ProcessedPerCore(c, needed[i]))

\* ------------------------------------------------------ throughput aggregator

\* The division by the slot time forgotten: extrinsics per slot.
Mut_EffectiveTps(c, processed) ==
    RMulInt(Frac(processed, c.work_package_size), T)

\* (processed / work_package_size) * T / P.
EffectiveTps(c, processed) ==
    RDivInt(RMulInt(Frac(processed, c.work_package_size), T), P)

\* The lookback one slot short.
Mut_FinalizedEntry_OffByOne(eff, s) ==
    IF s >= finality_delay_slots THEN eff[(s - finality_delay_slots) + 2]
    ELSE Zero

\* No sentinel: an early slot reports its own effective value.
Mut_FinalizedEntry_NoSentinel(eff, s) ==
    IF s >= finality_delay_slots THEN eff[(s - finality_delay_slots) + 1]
    ELSE eff[s + 1]

\* The entry appended to the finalized series in slot s (0-based), eff
\* holding the effective series with slot s's entry already appended.
FinalizedEntry(eff, s) ==
    IF s >= finality_delay_slots THEN eff[(s - finality_delay_slots) + 1]
    ELSE Zero

\* Nothing appended before the delay has elapsed.
Mut_AppendFinalized(fin, eff, s) ==
    IF s >= finality_delay_slots
    THEN Append(fin, eff[(s - finality_delay_slots) + 1])
    ELSE fin

\* The finalized series after slot s.
AppendFinalized(fin, eff, s) == Append(fin, FinalizedEntry(eff, s))

\* C * T / P.
TheoreticalTps(c) == Frac(c.C * T, P)

\* ------------------------------------------------------------------ cost model

\* The two prices swapped.
Mut_SlotCost(workloads) ==
    LET tickets == workloads * T
    IN  RAdd(RMulInt(Frac(5, 10000), workloads), RMulInt(Frac(1, 1000), tickets))

\* tickets = workloads * T; cost = GAMMA_A * workloads + GAMMA_Z * tickets.
SlotCost(workloads) ==
    LET tickets == workloads * T
    IN  RAdd(RMulInt(GAMMA_A, workloads), RMulInt(GAMMA_Z, tickets))

\* ---------------------------------------------------------- simulation driver

\* The runs followed over up to MaxSlots slots: those whose slot has few
\* outcomes.  The number of histories grows with the number of outcomes of
\* a slot to the power num_slots; the other runs stop at MaxSlotsWide.
LongRun(im, c, sc) ==
    \/ im = "A" /\ (c.C = 1 \/ sc = "stateless")
    \/ im = "B" /\ c.C = 1 /\ sc = "stateless"

\* The runs started.  Over two cores jam_datacenter_simulator.py is run on
\* its narrowest range of work-packages only ("stateless", 5..15): the draw
\* of up to 30 chunks over two cores has some 480 outcomes a slot.
Init ==
    /\ impl \in {"A", "B"}
    /\ cfg \in Settings(impl)
    /\ scenario \in Scenarios
    /\ (impl = "B" /\ cfg.C > 1) => scenario = "stateless"
    /\ num_slots \in 0..(IF LongRun(impl, cfg, scenario)
                         THEN MaxSlots ELSE MaxSlotsWide)
    /\ pc = "loop"
    /\ err = ""
    /\ slot = 0
    /\ tps_effective = <<>>
    /\ tps_finalized = <<>>
    /\ contention_history = <<>>
    /\ costs = <<>>
    /\ last = <<>>
    /\ summary = <<>>

\* The tail of one loop iteration, the same in both files: the appends to
\* the four series and the locals of the iteration.
Record(workloads, needed, contended, processed) ==
    /\ slot' = slot + 1
    /\ last' = << [workloads |-> workloads, needed |-> needed,
                   processed |-> processed] >>
    /\ contention_history' = Append(contention_history, contended)
    /\ tps_effective' = Append(tps_effective, EffectiveTps(cfg, processed))
    /\ tps_finalized' = AppendFinalized(tps_finalized, tps_effective', slot)
    /\ costs' = Append(costs, SlotCost(workloads))
    /\ UNCHANGED <<impl, cfg, scenario, num_slots, pc, err, summary>>

\* One iteration of simulation.py's slot loop.
SlotStepA ==
    /\ impl = "A" /\ pc = "loop" /\ slot < num_slots
    /\ \E d \in DrawsA(scenario) :
       \E wpc \in Multinomial(d[1], cfg.C) :
       \E witpc \in Multinomial(d[2], cfg.C) :
          LET needed == NeededA(cfg, wpc, witpc)
              r == CoreLoopA(cfg, needed, 1, 0, 0)
          IN  Record(d[1], needed, r[1] > 0, r[2])

\* simulation.py: raise ValueError("Unknown scenario.") in the iteration.
RaiseUnknownScenario ==
    /\ impl = "A" /\ pc = "loop" /\ slot < num_slots
    /\ scenario \notin KnownScenarios
    /\ pc' = "error"
    /\ err' = "ValueError"
    /\ UNCHANGED <<impl, cfg, scenario, num_slots, slot, tps_effective,
                   tps_finalized, contention_history, costs, last, summary>>

\* One iteration of jam_datacenter_simulator.py's slot loop.
SlotStepB ==
    /\ impl = "B" /\ pc = "loop" /\ slot < num_slots
    /\ \E num_workloads \in workloads_for_slot(scenario) :
       LET total_chunks ==
               num_workloads * (cfg.work_package_size \div cfg.CHUNK_SIZE)
       IN  \E cpc \in Multinomial(total_chunks, cfg.C) :
              LET needed == NeededB(cfg, num_workloads, cpc)
                  r == CoreLoopB(cfg, needed, 1, FALSE, 0)
              IN  Record(num_workloads, needed, r[1], r[2])

\* The summary after the loop, num_slots > 0.
Summarise ==
    /\ pc = "loop" /\ slot = num_slots /\ num_slots # 0
    /\ summary' = << [tps_theoretical |-> TheoreticalTps(cfg),
                      avg_tps_effective |-> Mean(tps_effective),
                      avg_tps_finalized |-> Mean(tps_finalized),
                      avg_cost |-> Mean(costs),
                      contention_rate |->
                          Frac(CountTrue(contention_history) * 100, num_slots)] >>
    /\ pc' = "done"
    /\ UNCHANGED <<impl, cfg, scenario, num_slots, err, slot, tps_effective,
                   tps_finalized, contention_history, costs, last>>

\* The summary after an empty loop: sum(...) / num_slots divides by zero.
RaiseZeroDivision ==
    /\ pc = "loop" /\ slot = num_slots /\ num_slots = 0
    /\ pc' = "error"
    /\ err' = "ZeroDivisionError"
    /\ UNCHANGED <<impl, cfg, scenario, num_slots, slot, tps_effective,
                   tps_finalized, contention_history, costs, last, summary>>

Next ==
    \/ SlotStepA
    \/ RaiseUnknownScenario
    \/ SlotStepB
    \/ Summarise
    \/ RaiseZeroDivision

Spec == Init /\ [][Next]_vars

\* A step of the run, told by the program counter and the slot index alone:
\* every step of Next is one, and one is possible exactly while the run is
\* in its loop.
Progress ==
    /\ pc = "loop"
    /\ \/ pc' = "loop" /\ slot' = slot + 1
       \/ pc' \in {"done", "error"} /\ slot' = slot

\* The loop is synchronous and single-threaded: a run that can take a step
\* takes it.
FairSpec == Spec /\ WF_<<pc, slot>>(Progress)

\* ================================================================== claims

Recognised == scenario \in KnownScenarios

\* The locals of the latest loop iteration, and its 1-based place in the
\* series.
Ran == last # <<>>

Latest == last[1]

\* ---------------------------------------------------------------------- C1
\* C1: in every state of every run, the finalized series' entry of slot s
\* is the effective series' entry of slot s - finality_delay_slots when
\* s >= finality_delay_slots, and the sentinel 0 for the earlier slots.
\* (Entry k of a series is slot k - 1.)
C1_FinalizedLookback ==
    \A k \in 1..Len(tps_finalized) :
        IF k - 1 >= finality_delay_slots
        THEN tps_finalized[k] = tps_effective[k - finality_delay_slots]
        ELSE tps_finalized[k] = [n |-> 0, d |-> 1]

\* A slot past the delay whose finalized value is the earlier slot's
\* effective value and differs from its own.
C1_Witness ==
    /\ Len(tps_finalized) = finality_delay_slots + 1
    /\ tps_finalized[finality_delay_slots + 1] = tps_effective[1]
    /\ tps_effective[1] # tps_effective[finality_delay_slots + 1]
    /\ tps_effective[1] # tps_effective[finality_delay_slots]
    /\ tps_finalized[1] = [n |-> 0, d |-> 1]

\* ---------------------------------------------------------------------- C2
\* C2: the bytes transmitted in a slot are at most core_count times the
\* per-core capacity (bandwidth * slot seconds) and at most the slot's
\* total demanded bytes.
C2_TransmittedBounded ==
    Ran =>
        /\ Latest.processed <= cfg.C * (cfg.core_bandwidth * P)
        /\ Latest.processed <= SumSeq(Latest.needed)

\* Two cores, one above its capacity and one below: the transmitted bytes
\* are strictly below both bounds.
C2_Witness ==
    /\ Ran
    /\ cfg.C = 2
    /\ Latest.needed[1] > cfg.core_bandwidth * P
    /\ Latest.needed[2] < cfg.core_bandwidth * P
    /\ Latest.processed < SumSeq(Latest.needed)
    /\ Latest.processed < cfg.C * (cfg.core_bandwidth * P)

\* ---------------------------------------------------------------------- C5
\* C5: the contention flag recorded for a slot is true exactly when some
\* core's demanded bytes exceed per_core_bandwidth * slot_seconds; a slot
\* whose cores all demand exactly their capacity is not contended.
C5_ContendedIffSomeCoreOver ==
    Ran =>
        (contention_history[Len(contention_history)]
            <=> \E i \in 1..cfg.C : Latest.needed[i] > cfg.core_bandwidth * P)

\* Two cores, each demanding exactly its capacity, and the flag is false.
C5_Witness ==
    /\ Ran
    /\ cfg.C = 2
    /\ \A i \in 1..cfg.C : Latest.needed[i] = cfg.core_bandwidth * P
    /\ ~contention_history[Len(contention_history)]

\* ---------------------------------------------------------------------- C8
\* C8: the cost recorded for a slot is cost_per_workload * workload_count +
\* cost_per_ticket * (workload_count * extrinsics_per_package), a function
\* of the workload count alone (0.001 and 0.0005 USD: cost * 10000 =
\* 10 * workloads + 5 * workloads * T).
C8_CostOfWorkloads ==
    Ran =>
        LET cost == costs[Len(costs)]
            w == Latest.workloads
        IN  cost.n * 10000 = cost.d * (10 * w + 5 * (w * T))

\* A contended slot, where part of the demand is dropped, charged in full.
C8_Witness ==
    /\ Ran
    /\ Latest.processed < SumSeq(Latest.needed)
    /\ Latest.workloads = 2
    /\ costs[Len(costs)] = [n |-> 13, d |-> 100]

C4_UnknownScenarioRaisesFirst ==
    (~Recognised /\ num_slots >= 1) =>
        /\ tps_effective = <<>> /\ tps_finalized = <<>>
        /\ contention_history = <<>> /\ costs = <<>>
        /\ pc # "done"
        /\ pc = "error" => err = "ValueError"

\* ---------------------------------------------------------------------- C6
\* C6: a run of a recognised scenario with num_slots >= 1 is a single pass:
\* each step of the loop raises the slot index by one and appends one entry
\* to each of the four series, the loop is left only at slot = num_slots and
\* never by an error, the run terminates, and at termination every series
\* has num_slots entries.
C6_Case == Recognised /\ num_slots >= 1

C6_Lengths(k) ==
    /\ Len(tps_effective) = k /\ Len(tps_finalized) = k
    /\ Len(contention_history) = k /\ Len(costs) = k

C6_Step ==
    (C6_Case /\ pc = "loop") =>
        \/ /\ pc' = "loop" /\ slot < num_slots /\ slot' = slot + 1
           /\ C6_Lengths(slot)'
        \/ /\ pc' = "done" /\ slot = num_slots /\ slot' = slot
           /\ UNCHANGED <<tps_effective, tps_finalized, contention_history,
                          costs>>

C6_SinglePass ==
    /\ [](C6_Case => (slot <= num_slots /\ C6_Lengths(slot) /\ pc # "error"))
    /\ [][C6_Step]_vars
    /\ [](C6_Case /\ pc = "done" => C6_Lengths(num_slots))
    /\ C6_Case ~> (pc = "done")

\* A completed run of MaxSlots slots.
C6_Witness ==
    /\ C6_Case /\ pc = "done" /\ num_slots = MaxSlots /\ slot = MaxSlots
    /\ Len(tps_finalized) = MaxSlots

\* ---------------------------------------------------------------------- C7
\* C7: a run of a recognised scenario never ends in an error, whatever
\* num_slots >= 0 is.
C7_NoOtherError == Recognised => pc # "error"

\* ---------------------------------------------------------------------- C9
\* C9: in simulation.py, when the per-core slot capacity is below one
\* work-package (the shipped constants), every slot is flagged contended
\* and the contention rate of a completed run is 100.
C9_ShippedAlwaysContended ==
    (impl = "A" /\ cfg.core_bandwidth * P < cfg.work_package_size) =>
        /\ \A k \in 1..Len(contention_history) : contention_history[k]
        /\ pc = "done" => summary[1].contention_rate = [n |-> 100, d |-> 1]

\* A completed run of MaxSlots slots over two cores whose last slot left a
\* core below its capacity.
C9_Witness ==
    /\ impl = "A" /\ cfg.core_bandwidth * P < cfg.work_package_size
    /\ pc = "done" /\ num_slots = MaxSlots /\ cfg.C = 2
    /\ \E i \in 1..cfg.C : Latest.needed[i] < cfg.core_bandwidth * P
    /\ summary[1].contention_rate = [n |-> 100, d |-> 1]

\* --------------------------------------------------------------------- C10
\* C10: after a completed run the finalized series sums to the sum of the
\* first max(num_slots - finality_delay_slots, 0) effective entries, and
\* avg_finalized_tps <= avg_effective_tps.
C10_FinalizedSum ==
    pc = "done" =>
        LET kept == IF num_slots > finality_delay_slots
                    THEN num_slots - finality_delay_slots ELSE 0
        IN  /\ RSum(tps_finalized) = RSum(SubSeq(tps_effective, 1, kept))
            /\ RLe(summary[1].avg_tps_finalized, summary[1].avg_tps_effective)

\* A completed run longer than the delay: some value was finalized, and the
\* finalized average is strictly below the effective one.
C10_Witness ==
    /\ pc = "done" /\ num_slots > finality_delay_slots
    /\ summary[1].avg_tps_finalized # [n |-> 0, d |-> 1]
    /\ RLt(summary[1].avg_tps_finalized, summary[1].avg_tps_effective)

====
